---------------------------- MODULE Spec2Model ----------------------------
(***************************************************************************)
(* EchoVerse (src/app.py): a Streamlit script that rewrites a text through *)
(* a hosted text-generation model (two candidate models, tried in order),  *)
(* sends the stored rewritten text to a text-to-speech model and shows     *)
(* lexical statistics of it.                                               *)
(*                                                                         *)
(* A text is a sequence of one-character strings.  The per-session slot    *)
(* st.session_state is a function from keys to values; the script's        *)
(* position in one run is pc.  Three specifications share the variables:   *)
(*   Spec         one user session: script runs driven by UI events        *)
(*   SpecRewrite  one call rewrite_text(text, tone), any text              *)
(*   SpecAnalyze  one call analyze_text(text), any text                    *)
(*                                                                         *)
(* HF_API_KEY is set (otherwise st.stop() ends every run at line 15) and   *)
(* an uploaded file decodes as UTF-8.  An exception nothing catches ends   *)
(* the run; st.session_state outlives it.                                  *)
(***************************************************************************)
EXTENDS Integers, Sequences, FiniteSets, TLC

\* ------------------------------------------------------------------ bounds
\* longest text typed or uploaded, and longest model output, in a session
MaxTextLen == 2
\* longest text handed to analyze_text on its own
MaxAnalyzeLen == 3

\* ------------------------------------------------------------- characters
\* what str.split() and str.strip() treat as whitespace
Whitespace == {" ", "\n"}
\* the sentence separator of analyze_text
Dot == "."
\* characters of the texts of a session
SessionAlphabet == {"a", " "}
\* characters of the texts analyze_text is called on directly
AnalyzeAlphabet == {"a", "b", " ", "\n", "."}

\* all texts over alphabet A of length at most n
TextsUpTo(A, n) == UNION {[1..k -> A] : k \in 0..n}

\* "The cat sat. The cat ran."
CatText ==
    <<"T","h","e"," ","c","a","t"," ","s","a","t","."," ",
      "T","h","e"," ","c","a","t"," ","r","a","n",".">>

AnalyzeTexts == TextsUpTo(AnalyzeAlphabet, MaxAnalyzeLen) \cup {CatText}
SessionTexts == TextsUpTo(SessionAlphabet, MaxTextLen)

\* ------------------------------------------------------- string functions
Max(a, b) == IF a >= b THEN a ELSE b

RECURSIVE lstrip(_)
lstrip(s) ==
    IF s # <<>> /\ Head(s) \in Whitespace THEN lstrip(Tail(s)) ELSE s

RECURSIVE rstrip(_)
rstrip(s) ==
    IF s # <<>> /\ s[Len(s)] \in Whitespace
    THEN rstrip(SubSeq(s, 1, Len(s) - 1))
    ELSE s

\* str.strip(): no leading and no trailing whitespace
strip(s) == rstrip(lstrip(s))

\* str.split(): the maximal runs of non-whitespace characters, in order.
\* cur is the run being read.
RECURSIVE SplitWs(_, _)
SplitWs(s, cur) ==
    IF s = <<>>
    THEN IF cur = <<>> THEN <<>> ELSE <<cur>>
    ELSE IF Head(s) \in Whitespace
         THEN (IF cur = <<>> THEN <<>> ELSE <<cur>>) \o SplitWs(Tail(s), <<>>)
         ELSE SplitWs(Tail(s), Append(cur, Head(s)))

split(s) == SplitWs(s, <<>>)

\* str.split(sep): the segments between separators, empty ones included;
\* always one more segment than there are separators.
RECURSIVE SplitSep(_, _, _)
SplitSep(s, sep, cur) ==
    IF s = <<>>
    THEN <<cur>>
    ELSE IF Head(s) = sep
         THEN <<cur>> \o SplitSep(Tail(s), sep, <<>>)
         ELSE SplitSep(Tail(s), sep, Append(cur, Head(s)))

split_on(s, sep) == SplitSep(s, sep, <<>>)

Range(f) == {f[i] : i \in DOMAIN f}

RECURSIVE SumSeq(_)
SumSeq(q) == IF q = <<>> THEN 0 ELSE Head(q) + SumSeq(Tail(q))

\* ---------------------------------------------------------- analyze_text
\* words = text.split(" "): one "word" per space-separated piece
words_of_SplitOnSpace(text) == split_on(text, " ")

\* words = text.split()
words_of(text) == split(text)
\* sentences = text.split(".")
sentences_of(text) == split_on(text, Dot)
\* vocab = set(words)
vocab_of(text) == Range(words_of(text))

\* sum(len(s.split()) for s in sentences if s.strip())
SentenceTokens(text) ==
    LET ss == sentences_of(text)
    IN  SumSeq([i \in 1..Len(ss) |->
                  IF strip(ss[i]) # <<>> THEN Len(split(ss[i])) ELSE 0])

\* max(1, len(sentences)): every segment counts, the empty ones too
AvgDenominator(text) == Max(1, Len(sentences_of(text)))

\* avg_len, a quotient of two integers, kept as numerator and denominator
avg_len(text) == [num |-> SentenceTokens(text), den |-> AvgDenominator(text)]

\* round(n / d) for n >= 0, d > 0, ties to the even neighbour
RoundHalfEven(n, d) ==
    LET q == n \div d
        r == n % d
    IN  IF 2 * r < d THEN q
        ELSE IF 2 * r > d THEN q + 1
        ELSE IF q % 2 = 0 THEN q ELSE q + 1

\* round((len(vocab)/len(words))*100 + avg_len, 2), in hundredths
score(text) ==
    LET U == Cardinality(vocab_of(text))
        W == Len(words_of(text))
        a == avg_len(text)
    IN  RoundHalfEven(10000 * U * a.den + 100 * a.num * W, W * a.den)

\* the exception analyze_text raises on text, "none" when it returns:
\* len(vocab)/len(words) divides by zero when there is no word
analyze_raises(text) ==
    IF Len(words_of(text)) = 0 THEN "ZeroDivisionError" ELSE "none"

\* the dict analyze_text returns (when it raises nothing)
analyze_text(text) ==
    [words            |-> Len(words_of(text)),
     unique_words     |-> Cardinality(vocab_of(text)),
     avg_sentence_len |-> avg_len(text),
     complexity       |-> score(text)]


\* ------------------------------------------------------------ UI constants
\* st.selectbox("Choose tone", ...)
Tones == {"Neutral", "Suspenseful", "Inspiring", "Excited"}
\* st.selectbox("Narrator", ...)
\* (each label ends with an emoji, left out here)
NarrationStyles == {"Wise Mentor", "Energetic", "Calm", "Robotic"}
\* the two st.button widgets; "none" is a rerun no button caused
Buttons == {"none", "rewrite", "audio"}
\* models_to_try
models_to_try ==
    <<"ibm-granite/granite-3.2-8b-instruct", "ibm-granite/granite-3b-instruct">>
\* the model of client.text_to_speech
TtsModel == "espnet/kan-bayashi_ljspeech_vits"

\* f"Rewrite this text in a {tone} tone:\n\n{text}"
Prompt(txt, tn) == <<"Rewrite this text in a ", tn, " tone:\n\n">> \o txt
\* f"{style} style {text}"
TtsText(sty, txt) == <<sty, " style ">> \o txt

\* Python truthiness of a str / bytes value: non-empty
Truthy(s) == s # <<>>

\* ------------------------------------------------------------ hf_infer_http
\* What the endpoint can answer to one POST.  kind:
\*   conn_error  requests.post raises (no connection, timeout)
\*   http_error  resp.raise_for_status() raises (non-2xx)
\*   bad_json    resp.json() raises
\*   records     a non-empty list whose first record has "generated_text"
\*   record      a dict with "generated_text"
\*   not_str     one of the two shapes, "generated_text" not a string (null)
\*   other       any other JSON value; body is str(data)
HttpFailures == {"conn_error", "http_error", "bad_json"}
Responses ==
    [kind : HttpFailures \cup {"not_str"}, body : {<<>>}]
    \cup [kind : {"records", "record", "other"}, body : SessionTexts]

\* the exception hf_infer_http raises on this response, "none" if it returns
hf_raises(resp) ==
    CASE resp.kind = "conn_error" -> "RequestException"
      [] resp.kind = "http_error" -> "HTTPError"
      [] resp.kind = "bad_json"   -> "JSONDecodeError"
      [] OTHER                    -> "none"

\* the value hf_infer_http returns; is_str tells a str from any other value
hf_infer_http(resp) ==
    [is_str |-> resp.kind # "not_str", value |-> resp.body]

\* whether the try body `hf_infer_http(prompt, model).strip()` raises:
\* the request raised, or the value returned has no strip()
AttemptRaises(resp) ==
    hf_raises(resp) # "none" \/ ~hf_infer_http(resp).is_str

\* the try body without .strip()
AttemptValue_Untrimmed(resp) == hf_infer_http(resp).value

\* the value of the try body when it raises nothing
AttemptValue(resp) == strip(hf_infer_http(resp).value)

\* ------------------------------------------------------------------- state
VARIABLES
    session_state,  \* st.session_state: key -> value, kept across runs
    pc,             \* where the script run (or the single call) stands
    text,           \* the script's text (SourceText); rewrite_text's argument
    narrator,       \* the narrator select box's value in this run
    style,          \* the script's variable style
    button,         \* the button whose press caused this run
    prompt,         \* rewrite_text's prompt, <<>> outside a call
    model_idx,      \* rewrite_text's position in models_to_try
    response,       \* <<r>>: r answered the call's last request
    contacted,      \* this run's model requests, in order, each with its end
    ret,            \* <<v>>: v is what the last rewrite_text call returned
    audio_file,     \* the script's variable audio_file
    tts_requests,   \* the text_to_speech requests of this run, in order
    shown,          \* what this run has rendered
    analyzed,       \* <<t>>: analyze_text was called on t in this run
    stats,          \* <<d>>: d is the dict analyze_text returned
    error           \* the exception that ended the run, "none" otherwise

vars == <<session_state, pc, text, narrator, style, button, prompt, model_idx,
          response, contacted, ret, audio_file, tts_requests, shown, analyzed, stats,
          error>>

\* st.session_state with no key
EmptySession == [k \in {} |-> <<>>]
\* "rewritten_text" in st.session_state
HasRewritten == "rewritten_text" \in DOMAIN session_state

\* values of audio_file: not assigned, None, b"" or some bytes
AudioValues == {"unset", "None", "empty_bytes", "bytes"}

\* the state shared by the three initial conditions: nothing has run
Fresh ==
    /\ session_state = EmptySession
    /\ narrator = "Wise Mentor"
    /\ style = "Wise Mentor"
    /\ button = "none"
    /\ response = <<>>
    /\ contacted = <<>>
    /\ ret = <<>>
    /\ audio_file = "unset"
    /\ tts_requests = <<>>
    /\ shown = {}
    /\ analyzed = <<>>
    /\ stats = <<>>
    /\ error = "none"

\* a session that has just been opened; no script run yet
Init ==
    /\ Fresh
    /\ pc = "idle"
    /\ text = <<>>
    /\ prompt = <<>>
    /\ model_idx = 0

\* ---------------------------------------------------------- generate_audio
\* What client.text_to_speech can do: raise, or return b"" or some bytes
TtsOutcomes == {"raise", "empty_bytes", "bytes"}

\* generate_audio(text, style) when text_to_speech does `tts`: the request
\* it sends, what it returns, and whether st.error reported a failure
generate_audio(txt, sty, tts) ==
    [request  |-> [model |-> TtsModel, text |-> TtsText(sty, txt)],
     result   |-> IF tts = "raise" THEN "None" ELSE tts,
     reported |-> tts = "raise"]

\* truthiness of audio_file: None and b"" are false
AudioTruthy(a) == a = "bytes"

\* the exception open(audio_file, "rb") raises, "none" if it opens a file:
\* None is no path; bytes are taken as a file name, which exists or not
open_raises(a, exists) ==
    CASE a = "None"        -> "TypeError"
      [] a = "empty_bytes" -> "FileNotFoundError"
      [] OTHER             -> IF exists THEN "none" ELSE "FileNotFoundError"

\* ------------------------------------------------------------- script run
\* A UI event reruns the script from the top with the widgets' values:
\* the text (uploaded or pasted), the select boxes, the button pressed.
RunScript(t, nar, b) ==
    /\ pc = "idle"
    /\ pc' = "top"
    /\ text' = t
    /\ narrator' = nar
    /\ style' = nar
    /\ button' = b
    /\ prompt' = <<>>
    /\ model_idx' = 0
    /\ response' = <<>>
    /\ contacted' = <<>>
    /\ audio_file' = "unset"
    /\ tts_requests' = <<>>
    /\ shown' = {}
    /\ analyzed' = <<>>
    /\ stats' = <<>>
    /\ error' = "none"
    /\ UNCHANGED <<session_state, ret>>

\* lines 112-117: with a stored text, style is overwritten, the text is
\* sent to text_to_speech and a truthy result is played
AutoPlayback(tts) ==
    /\ pc = "top"
    /\ pc' = "rewrite_button"
    /\ IF HasRewritten
       THEN LET g == generate_audio(session_state["rewritten_text"],
                                    "Narrative", tts)
            IN  /\ style' = "Narrative"
                /\ tts_requests' = Append(tts_requests, g.request)
                /\ audio_file' = g.result
                /\ shown' = shown
                      \cup (IF g.reported THEN {"audio_error"} ELSE {})
                      \cup (IF AudioTruthy(g.result) THEN {"autoplay"} ELSE {})
       ELSE UNCHANGED <<style, tts_requests, audio_file, shown>>
    /\ UNCHANGED <<session_state, text, narrator, button, prompt, model_idx,
                   response, contacted, ret, analyzed, stats, error>>

\* lines 121-126 up to the call: the 'Rewrite Text' button
RewriteButton(tn) ==
    /\ pc = "rewrite_button"
    /\ IF button # "rewrite"
       THEN /\ pc' = "audio_button"
            /\ UNCHANGED <<shown, prompt, model_idx>>
       ELSE IF ~Truthy(text)
       THEN /\ pc' = "audio_button"
            /\ shown' = shown \cup {"warn_no_text"}
            /\ UNCHANGED <<prompt, model_idx>>
       ELSE /\ pc' = "rewrite_loop"
            /\ prompt' = Prompt(text, tn)
            /\ model_idx' = 1
            /\ UNCHANGED shown
    /\ UNCHANGED <<session_state, text, narrator, style, button, response,
                   contacted, ret, audio_file, tts_requests, analyzed, stats,
                   error>>

\* ------------------------------------------------------------ rewrite_text
\* the model the loop is at (0: the loop is over)
NextModel == IF model_idx \in DOMAIN models_to_try THEN model_idx ELSE 0

\* one turn of `for model in models_to_try`: the try body returns, or raises
\* and the loop continues
TryModel(resp) ==
    /\ pc = "rewrite_loop"
    /\ NextModel # 0
    /\ response' = <<resp>>
    /\ contacted' = Append(contacted,
          [model |-> models_to_try[NextModel], ok |-> ~AttemptRaises(resp)])
    /\ IF AttemptRaises(resp)
       THEN /\ model_idx' = model_idx + 1
            /\ UNCHANGED <<ret, pc>>
       ELSE /\ ret' = <<AttemptValue(resp)>>
            /\ pc' = "rewrite_return"
            /\ UNCHANGED model_idx
    /\ UNCHANGED <<session_state, text, narrator, style, button, prompt,
                   audio_file, tts_requests, shown, analyzed, stats, error>>

\* `return text.strip()` after the loop
FallbackValue_Trimmed == strip(text)

\* what rewrite_text returns once the loop is over
FallbackValue == text

\* line 44: the loop ended without a return
Fallback ==
    /\ pc = "rewrite_loop"
    /\ NextModel = 0
    /\ ret' = <<FallbackValue>>
    /\ pc' = "rewrite_return"
    /\ UNCHANGED <<session_state, text, narrator, style, button, prompt,
                   model_idx, response, contacted, audio_file, tts_requests,
                   shown, analyzed, stats, error>>

\* st.session_state after `st.session_state.rewritten_text += v`
Stored_Merged(v) ==
    [k \in DOMAIN session_state \cup {"rewritten_text"} |->
        IF k = "rewritten_text"
        THEN (IF HasRewritten THEN session_state[k] ELSE <<>>) \o v
        ELSE session_state[k]]

\* st.session_state after `st.session_state.rewritten_text = v`
Stored(v) == [k \in DOMAIN session_state \cup {"rewritten_text"} |->
                 IF k = "rewritten_text" THEN v ELSE session_state[k]]

\* line 126: rewrite_text has returned (its locals are gone) and its value
\* is assigned
StoreRewritten ==
    /\ pc = "rewrite_return"
    /\ session_state' = Stored(ret[1])
    /\ pc' = "audio_button"
    /\ prompt' = <<>>
    /\ model_idx' = 0
    /\ response' = <<>>
    /\ UNCHANGED <<text, narrator, style, button, contacted, ret, audio_file,
                   tts_requests, shown, analyzed, stats, error>>

\* ------------------------------------------------- 'Generate Audio' button
\* lines 128-136.  Reading st.session_state.rewritten_text with no such key
\* raises AttributeError; an uncaught exception ends the run.
AudioButton(tts, exists) ==
    /\ pc = "audio_button"
    /\ IF button # "audio"
       THEN /\ pc' = "insights"
            /\ UNCHANGED <<audio_file, tts_requests, shown, error>>
       ELSE IF ~HasRewritten
       THEN /\ pc' = "idle"
            /\ error' = "AttributeError"
            /\ UNCHANGED <<audio_file, tts_requests, shown>>
       ELSE IF ~Truthy(session_state["rewritten_text"])
       THEN /\ pc' = "insights"
            /\ shown' = shown \cup {"warn_rewrite_first"}
            /\ UNCHANGED <<audio_file, tts_requests, error>>
       ELSE LET g == generate_audio(session_state["rewritten_text"], style, tts)
                e == open_raises(g.result, exists)
            IN  /\ tts_requests' = Append(tts_requests, g.request)
                /\ audio_file' = g.result
                /\ error' = e
                /\ pc' = IF e = "none" THEN "insights" ELSE "idle"
                /\ shown' = shown
                      \cup (IF g.reported THEN {"audio_error"} ELSE {})
                      \cup (IF g.result # "None" THEN {"audio"} ELSE {})
                      \cup (IF e = "none" THEN {"download"} ELSE {})
    /\ UNCHANGED <<session_state, text, narrator, style, button, prompt,
                   model_idx, response, contacted, ret, analyzed, stats>>

\* ---------------------------------------------------------------- insights
\* analyze_text(text): the statistics of the SourceText
InsightsSubject_SourceText == text

\* the text line 143 hands to analyze_text
InsightsSubject == session_state["rewritten_text"]

\* lines 138-149
Insights ==
    /\ pc = "insights"
    /\ pc' = "idle"
    /\ IF ~HasRewritten
       THEN /\ error' = "AttributeError"
            /\ UNCHANGED <<shown, analyzed, stats>>
       ELSE IF ~Truthy(session_state["rewritten_text"])
       THEN UNCHANGED <<shown, analyzed, stats, error>>
       ELSE /\ analyzed' = <<InsightsSubject>>
            /\ error' = analyze_raises(InsightsSubject)
            /\ IF analyze_raises(InsightsSubject) = "none"
               THEN /\ stats' = <<analyze_text(InsightsSubject)>>
                    /\ shown' = shown \cup {"rewritten", "insights", "chart"}
               ELSE /\ stats' = <<>>
                    /\ shown' = shown \cup {"rewritten"}
    /\ UNCHANGED <<session_state, text, narrator, style, button, prompt,
                   model_idx, response, contacted, ret, audio_file,
                   tts_requests>>

\* ------------------------------------------------------------ the session
Next ==
    \/ \E t \in SessionTexts, nar \in NarrationStyles, b \in Buttons :
          RunScript(t, nar, b)
    \/ \E tts \in TtsOutcomes : AutoPlayback(tts)
    \/ \E tn \in Tones : RewriteButton(tn)
    \/ \E resp \in Responses : TryModel(resp)
    \/ Fallback
    \/ StoreRewritten
    \/ \E tts \in TtsOutcomes, exists \in BOOLEAN : AudioButton(tts, exists)
    \/ Insights

Spec == Init /\ [][Next]_vars

\* ------------------------------------------- one call of rewrite_text alone
\* rewrite_text(text, tone) has just been entered, with any text and tone
InitRewrite ==
    /\ Fresh
    /\ pc = "rewrite_loop"
    /\ text \in SessionTexts
    /\ \E tn \in Tones : prompt = Prompt(text, tn)
    /\ model_idx = 1

NextRewrite ==
    \/ \E resp \in Responses : TryModel(resp)
    \/ Fallback

SpecRewrite == InitRewrite /\ [][NextRewrite]_vars

\* ------------------------------------------ one call of analyze_text alone
InitAnalyze ==
    /\ Fresh
    /\ pc = "analyze_call"
    /\ text \in AnalyzeTexts
    /\ prompt = <<>>
    /\ model_idx = 0

\* analyze_text(text) runs: it raises, or returns its dict
AnalyzeCall ==
    /\ pc = "analyze_call"
    /\ pc' = "analyze_return"
    /\ analyzed' = <<text>>
    /\ error' = analyze_raises(text)
    /\ stats' = IF analyze_raises(text) = "none"
                THEN <<analyze_text(text)>> ELSE <<>>
    /\ UNCHANGED <<session_state, text, narrator, style, button, prompt,
                   model_idx, response, contacted, ret, audio_file,
                   tts_requests, shown>>

NextAnalyze == AnalyzeCall

SpecAnalyze == InitAnalyze /\ [][NextAnalyze]_vars

\* ================================================================== claims
\* a text has a word token: some character of it is not whitespace
HasWordToken(t) == \E i \in DOMAIN t : t[i] \notin Whitespace

\* every request of the rewrite_text call failed, and every model was asked
AllModelsFailed ==
    /\ Len(contacted) = Len(models_to_try)
    /\ \A i \in DOMAIN contacted : ~contacted[i].ok

\* C1 (SpecRewrite): when the attempt on every candidate model has failed,
\* rewrite_text returns exactly its argument text, not trimmed, not replaced,
\* and no exception reaches the caller.
C1_IdentityFallback ==
    (pc = "rewrite_return" /\ AllModelsFailed)
        => (ret = <<text>> /\ error = "none")

\* both models failed on a text with surrounding whitespace; it came back whole
C1_Witness ==
    /\ pc = "rewrite_return"
    /\ AllModelsFailed
    /\ strip(text) # text
    /\ ret = <<text>>

\* C2 (SpecRewrite): the models are asked in list order, each at most once,
\* at most two per call; a model is asked only after every earlier attempt
\* has failed, none is asked after a success, and the value returned after a
\* success is the trimmed text of that (first) successful attempt.
C2_OrderedFallback ==
    /\ Len(contacted) <= 2
    /\ Len(contacted) <= Len(models_to_try)
    /\ \A i \in DOMAIN contacted : contacted[i].model = models_to_try[i]
    /\ \A i \in DOMAIN contacted : i < Len(contacted) => ~contacted[i].ok
    /\ (contacted # <<>> /\ contacted[Len(contacted)].ok)
          => /\ pc = "rewrite_return"
             /\ ret = <<strip(response[1].body)>>
    /\ (pc = "rewrite_return" /\ ~AllModelsFailed)
          => contacted # <<>> /\ contacted[Len(contacted)].ok

\* the first model failed, the second answered a text with whitespace around it
C2_Witness ==
    /\ pc = "rewrite_return"
    /\ Len(contacted) = 2
    /\ ~contacted[1].ok
    /\ contacted[2].ok
    /\ strip(response[1].body) # response[1].body
    /\ ret = <<strip(response[1].body)>>

\* C3 (Spec): when generate_audio has returned None, nothing is played or
\* offered for download and no later playback/download step raises.
C3_AbsentAudioIsNoOp ==
    audio_file = "None"
        => /\ shown \cap {"autoplay", "audio", "download"} = {}
           /\ error \notin {"TypeError", "FileNotFoundError"}

\* the number of '.'-separated segments that are not empty or whitespace
NonEmptySegments(t) ==
    LET ss == split_on(t, Dot)
    IN  Cardinality({i \in DOMAIN ss : strip(ss[i]) # <<>>})

\* the whitespace tokens of the non-empty '.'-separated segments
TokensOfNonEmptySegments(t) ==
    LET ss == split_on(t, Dot)
    IN  SumSeq([i \in 1..Len(ss) |->
                  IF strip(ss[i]) # <<>> THEN Len(split(ss[i])) ELSE 0])

\* C4 (SpecAnalyze): avg_sentence_len is the number of whitespace tokens of
\* the non-empty '.'-separated segments divided by the number of non-empty
\* segments (at least 1); empty segments do not count in the denominator.
C4_AvgOverNonEmptySegments ==
    (pc = "analyze_return" /\ stats # <<>>)
        => stats[1].avg_sentence_len.num * Max(1, NonEmptySegments(text))
             = TokensOfNonEmptySegments(text) * stats[1].avg_sentence_len.den

\* C5 (SpecAnalyze): analyze_text fails with a division error and returns
\* nothing exactly on the texts with no word token; on every other text it
\* returns a result without error.
C5_DivisionErrorIffNoWord ==
    pc = "analyze_return"
        => IF HasWordToken(text)
           THEN error = "none" /\ stats # <<>>
           ELSE error = "ZeroDivisionError" /\ stats = <<>>

\* a whitespace-only, non-empty text has been analyzed and raised
C5_Witness ==
    /\ pc = "analyze_return"
    /\ text # <<>>
    /\ ~HasWordToken(text)
    /\ error = "ZeroDivisionError"

\* C6 (Spec): every text-to-speech request carries "{style} style {text}"
\* with text the stored RewrittenText and style the narration style the
\* user has selected, a member of NarrationStyles.
C6_RequestCarriesSelectedStyle ==
    [][\A i \in DOMAIN tts_requests' :
          i > Len(tts_requests)
             => /\ HasRewritten
                /\ narrator \in NarrationStyles
                /\ tts_requests'[i].text
                     = TtsText(narrator, session_state["rewritten_text"])]_vars

\* C7 (Spec): the stored RewrittenText is the value rewrite_text returned
\* for the most recent 'Rewrite Text' press with a non-empty SourceText,
\* overwritten and never merged; model requests are issued and the stored
\* value changes only in the run of such a press, so a press with empty
\* SourceText issues no request and leaves the stored value unchanged.
C7_StoredIsLastRewrite ==
    /\ [](pc # "rewrite_return"
            => /\ HasRewritten <=> ret # <<>>
               /\ HasRewritten => session_state["rewritten_text"] = ret[1])
    /\ [](contacted # <<>> => button = "rewrite" /\ text # <<>>)
    /\ [][(session_state' # session_state \/ ret' # ret)
             => button = "rewrite" /\ text # <<>>]_vars
    /\ [][session_state' # session_state
             => /\ DOMAIN session_state' = {"rewritten_text"}
                /\ session_state'["rewritten_text"] = ret[1]]_vars

\* a second rewrite has returned a value other than the non-empty one stored
C7_Witness ==
    /\ pc = "rewrite_return"
    /\ HasRewritten
    /\ session_state["rewritten_text"] # <<>>
    /\ ret[1] # session_state["rewritten_text"]

\* C8 (Spec): the AnalysisResult a run shows is analyze_text of the
\* RewrittenText as stored at the end of that run's rewrite step.
C8_InsightsOfCurrentRewritten ==
    /\ ("insights" \in shown) <=> (stats # <<>>)
    /\ stats # <<>>
         => /\ HasRewritten
            /\ analyzed = <<session_state["rewritten_text"]>>
            /\ stats = <<analyze_text(session_state["rewritten_text"])>>

\* insights are shown in the run of a rewrite whose result is not the
\* SourceText
C8_Witness ==
    /\ stats # <<>>
    /\ button = "rewrite"
    /\ contacted # <<>>
    /\ ret # <<text>>
    /\ analyzed = <<ret[1]>>

\* C9 (Spec): while no rewrite is stored, no run ends in an error, nothing
\* of the rewritten text or its insights is rendered, no text-to-speech
\* request is issued, and a 'Generate Audio' press shows 'Rewrite first'.
C9_NoErrorBeforeFirstRewrite ==
    ~HasRewritten
        => /\ error = "none"
           /\ shown \cap {"rewritten", "insights", "chart"} = {}
           /\ tts_requests = <<>>
           /\ (pc = "idle" /\ button = "audio")
                 => "warn_rewrite_first" \in shown

\* C10 (Spec): analyze_text is only ever called by the UI on a text with at
\* least one word token, so no run ends in the division by zero.
C10_AnalyzeOnlyTextsWithWords ==
    /\ analyzed # <<>> => HasWordToken(analyzed[1])
    /\ error # "ZeroDivisionError"

=============================================================================
